---- MODULE Spec2Model ----
(***************************************************************************)
(* A model of week2_mlp_practice.py: the activation library, the MLP       *)
(* class (__init__, get_weight_bound, fit, compute_loss, forward,          *)
(* backward, predict, score) and the two process-wide random generators    *)
(* the module touches (random, seeded by seed(1); numpy.random, used for   *)
(* every draw).                                                            *)
(*                                                                         *)
(* Reals are fixed-point integers: the integer v stands for v / Q.  A      *)
(* product of two values is divided by Q, a quotient multiplied by Q, both *)
(* rounded to the nearest integer.  Arrays are sequences of rows.  Python  *)
(* lists are sequences; At/SetAt translate Python's 0-based and negative   *)
(* indices.                                                                *)
(***************************************************************************)
EXTENDS Integers, Sequences, FiniteSets, TLC

VARIABLES self, pyRandom, npRandom, pc, loc, lastOp, pre, calls, ref, seen, nInit, nFit

vars == <<self, pyRandom, npRandom, pc, loc, lastOp, pre, calls, ref, seen, nInit, nFit>>

(***************************************************************************)
(* Bounds of the model.                                                    *)
(***************************************************************************)
\* number of MLP(...) constructions that return in one behaviour
MaxInit == 2
\* number of fit(...) calls that reach the main loop in one behaviour
MaxFit == 2
\* the largest max_epochs argument of fit
MaxEpochs == 2

(***************************************************************************)
(* Fixed-point arithmetic standing for numpy's float64.                    *)
(***************************************************************************)
Q == 8

\* a / b rounded to the nearest integer (b > 0)
RDiv(a, b) == (2 * a + b) \div (2 * b)

FxMul(a, b) == RDiv(a * b, Q)

\* Q * e^(x/Q) for x in -32..32, rounded, never below one unit: exp is positive
ExpTable ==
  << 1, 1, 1, 1, 1, 1, 1, 1, 1, 1, 1, 1, 1, 1, 1, 1, 1, 1, 1, 2, 2, 2, 2, 3,
     3, 3, 4, 4, 5, 5, 6, 7, 8, 9, 10, 12, 13, 15, 17, 19, 22, 25, 28, 32, 36,
     41, 46, 52, 59, 67, 76, 86, 97, 110, 125, 142, 161, 182, 206, 234, 265,
     300, 340, 385, 437 >>

\* np.exp, saturating outside the table
Exp(x) == ExpTable[(IF x < -32 THEN -32 ELSE IF x > 32 THEN 32 ELSE x) + 33]

\* np.sqrt of the fixed-point value v: the largest k with (k/Q)^2 <= v/Q
Sqrt(v) == CHOOSE k \in 0..(Q * (v + 1)) : k * k <= Q * v /\ (k + 1) * (k + 1) > Q * v

RECURSIVE SumSeq(_)
SumSeq(s) == IF s = <<>> THEN 0 ELSE s[1] + SumSeq(Tail(s))

(***************************************************************************)
(* Arrays.                                                                 *)
(***************************************************************************)
Rows(M) == Len(M)
Cols(M) == IF Len(M) = 0 THEN 0 ELSE Len(M[1])

\* the vector v of n entries and the array M of r rows and c columns, entry by
\* entry: every array is built once, as numpy builds it
RECURSIVE Arr1(_, _)
Arr1(v, n) == IF n = 0 THEN <<>> ELSE Append(Arr1(v, n - 1), v[n])

RECURSIVE Arr2(_, _, _)
Arr2(M, r, c) == IF r = 0 THEN <<>> ELSE Append(Arr2(M, r - 1, c), Arr1(M[r], c))

MapM(f(_), M) ==
  Arr2([i \in 1..Rows(M) |-> [j \in 1..Cols(M) |-> f(M[i][j])]], Rows(M), Cols(M))

\* M.T
Transpose(M) ==
  Arr2([j \in 1..Cols(M) |-> [i \in 1..Rows(M) |-> M[i][j]]], Cols(M), Rows(M))

\* np.dot(A, B) is defined when the inner dimensions agree
DotOk(A, B) == Cols(A) = Rows(B)

Dot(A, B) ==
  Arr2([i \in 1..Rows(A) |-> [j \in 1..Cols(B) |->
          RDiv(SumSeq(Arr1([k \in 1..Cols(A) |-> A[i][k] * B[k][j]], Cols(A))), Q)]],
       Rows(A), Cols(B))

\* M + b, the vector b broadcast over the rows
AddBias(M, b) ==
  Arr2([i \in 1..Rows(M) |-> [j \in 1..Cols(M) |-> M[i][j] + b[j]]], Rows(M), Cols(M))

\* A * B elementwise with numpy's broadcasting over the rows
MulOk(A, B) == Cols(A) = Cols(B) /\ (Rows(A) = Rows(B) \/ Rows(A) = 1 \/ Rows(B) = 1)

Mul(A, B) ==
  LET r == IF Rows(A) >= Rows(B) THEN Rows(A) ELSE Rows(B)
      ra(i) == IF Rows(A) = 1 THEN 1 ELSE i
      rb(i) == IF Rows(B) = 1 THEN 1 ELSE i
  IN  Arr2([i \in 1..r |-> [j \in 1..Cols(A) |-> FxMul(A[ra(i)][j], B[rb(i)][j])]],
           r, Cols(A))

\* A - s * B for a scalar s
SubScaled(A, s, B) ==
  Arr2([i \in 1..Rows(A) |-> [j \in 1..Cols(A) |-> A[i][j] - FxMul(s, B[i][j])]],
       Rows(A), Cols(A))

\* np.empty((r, c)): allocated, contents unspecified; no operation of the class
\* reads a buffer before it has been assigned
Empty(r, c) == Arr2([i \in 1..r |-> [j \in 1..c |-> 0]], r, c)

\* Python list indexing: l[i] for i >= 0 or i < 0
Idx(l, i) == IF i < 0 THEN Len(l) + i + 1 ELSE i + 1
At(l, i) == l[Idx(l, i)]
SetAt(l, i, v) == [l EXCEPT ![Idx(l, i)] = v]

\* a[lo:hi] on the first axis
Slice(a, lo, hi) ==
  LET h == IF hi > Len(a) THEN Len(a) ELSE hi
      n == IF h > lo THEN h - lo ELSE 0
  IN  Arr1([k \in 1..n |-> a[lo + k]], n)

(***************************************************************************)
(* Activation library.                                                     *)
(***************************************************************************)
sigmoid(x) == LET f(v) == RDiv(Q * Q, Q + Exp(-v)) IN MapM(f, x)

dsigmoid(x) == LET f(v) == FxMul(v, Q - v) IN MapM(f, x)

tanh(x) == LET f(v) == RDiv(2 * Q * Q, Q + Exp(-2 * v)) - Q IN MapM(f, x)

dtanh(z) == LET t == tanh(z)
                f(v) == Q - FxMul(v, v)
            IN  MapM(f, t)

softmax(X) ==
  Arr2([i \in 1..Rows(X) |->
          LET e == Arr1([j \in 1..Cols(X) |-> Exp(X[i][j])], Cols(X))
              s == SumSeq(e)
          IN  [j \in 1..Cols(X) |-> RDiv(Q * e[j], s)]],
       Rows(X), Cols(X))

\* the functions the constructor stores in activation_func, activation_dfunc
\* and output_layer are kept by name and dispatched here
Call(fname, x) ==
  CASE fname = "sigmoid"  -> sigmoid(x)
    [] fname = "dsigmoid" -> dsigmoid(x)
    [] fname = "tanh"     -> tanh(x)
    [] fname = "dtanh"    -> dtanh(x)
    [] fname = "softmax"  -> softmax(x)

(***************************************************************************)
(* The process-wide random generators.  numpy.random's Mersenne Twister is *)
(* stood for by a full-period congruential generator over 0..RngMod-1; a   *)
(* draw advances the state and maps it to [0, 1).                          *)
(***************************************************************************)
RngMod == 16

NextRng(r) == (5 * r + 3) % RngMod

\* random.seed(a): the state of Python's own generator after seeding with a
seed(a) == a % RngMod

RECURSIVE RngAfter(_, _)
RngAfter(r, k) == IF k = 0 THEN r ELSE RngAfter(NextRng(r), k - 1)

\* np.random.uniform(low, high, size=(rows, cols)): one draw per entry, row-major
uniform(low, high, rows, cols, r) ==
  [val |-> Arr2([i \in 1..rows |-> [j \in 1..cols |->
                   low + ((high - low) * RngAfter(r, (i - 1) * cols + j)) \div RngMod]],
                rows, cols),
   rng |-> RngAfter(r, rows * cols)]

\* np.random.shuffle(x): for i = n-1 down to 1, swap x[i] with x[j], j drawn in 0..i
RECURSIVE shuffle_from(_, _, _)
shuffle_from(x, i, r) ==
  IF i < 1 THEN [val |-> x, rng |-> r]
  ELSE LET r1 == NextRng(r)
           j  == r1 % (i + 1)
           x1 == [x EXCEPT ![i + 1] = x[j + 1], ![j + 1] = x[i + 1]]
       IN  shuffle_from(x1, i - 1, r1)

np_random_shuffle(x, r) == shuffle_from(x, Len(x) - 1, r)

\* a[index_set] on the first axis
Take(a, index_set) == Arr1([k \in 1..Len(index_set) |-> a[index_set[k] + 1]], Len(index_set))

(***************************************************************************)
(* class MLP                                                               *)
(***************************************************************************)
\* obj.name = v
SetAttr(obj, name, v) == (name :> v) @@ obj

\* __init__ with the four stores set before the configuration is validated
MLP_init_stores_first(a) ==
  LET o0 == [weights |-> <<>>, bias |-> <<>>, layers |-> <<>>, deltas |-> <<>>,
             input_size |-> a.input_size, output_size |-> a.output_size,
             hidden_layer_size |-> a.hidden_layer_size, lr |-> a.lr,
             reg_lambda |-> a.reg_lambda, momentum |-> a.momentum,
             batch_size |-> a.batch_size, n_layers |-> Len(a.hidden_layer_size),
             activation |-> a.activation, verbose |-> a.verbose]
      o2 == IF a.activation = "sigmoid"
            THEN SetAttr(SetAttr(o0, "activation_func", "sigmoid"), "activation_dfunc", "dsigmoid")
            ELSE SetAttr(SetAttr(o0, "activation_func", "tanh"), "activation_dfunc", "dtanh")
      o3 == SetAttr(o2, "loss", a.loss)
      o5 == SetAttr(SetAttr(o3, "output_layer", "softmax"), "nclass", a.output_size)
  IN  IF a.activation \notin {"sigmoid", "tanh"} THEN [raised |-> "ValueError", obj |-> o0]
      ELSE IF a.output_layer # "softmax" THEN [raised |-> "ValueError", obj |-> o3]
      ELSE [raised |-> "", obj |-> o5]

\* the state of the object under construction when __init__ returns or raises
MLP_init(a) ==
  LET o1 == [input_size |-> a.input_size, output_size |-> a.output_size,
             hidden_layer_size |-> a.hidden_layer_size, lr |-> a.lr,
             reg_lambda |-> a.reg_lambda, momentum |-> a.momentum,
             batch_size |-> a.batch_size, n_layers |-> Len(a.hidden_layer_size),
             activation |-> a.activation, verbose |-> a.verbose]
      o2 == IF a.activation = "sigmoid"
            THEN SetAttr(SetAttr(o1, "activation_func", "sigmoid"), "activation_dfunc", "dsigmoid")
            ELSE SetAttr(SetAttr(o1, "activation_func", "tanh"), "activation_dfunc", "dtanh")
      o3 == SetAttr(o2, "loss", a.loss)
      o4 == SetAttr(o3, "output_layer", "softmax")
      o5 == SetAttr(SetAttr(SetAttr(SetAttr(SetAttr(o4, "nclass", a.output_size),
              "weights", <<>>), "bias", <<>>), "layers", <<>>), "deltas", <<>>)
  IN  IF a.activation \notin {"sigmoid", "tanh"} THEN [raised |-> "ValueError", obj |-> o1]
      ELSE IF a.output_layer # "softmax" THEN [raised |-> "ValueError", obj |-> o3]
      ELSE [raised |-> "", obj |-> o5]

get_weight_bound(s, fan_in, fan_out) ==
  IF s.activation = "sigmoid" THEN Sqrt(RDiv(2 * Q, fan_in + fan_out))
  ELSE Sqrt(RDiv(6 * Q, fan_in + fan_out))

\* one weight matrix and one bias vector appended, drawn from numpy.random
append_params(st, fan_in, fan_out) ==
  LET init_bound == get_weight_bound(st.self, fan_in, fan_out)
      w == uniform(-init_bound, init_bound, fan_in, fan_out, st.rng)
      b == uniform(-init_bound, init_bound, 1, fan_out, w.rng)
  IN  [self |-> [st.self EXCEPT !.weights = Append(@, w.val), !.bias = Append(@, b.val[1])],
       rng |-> b.rng]

RECURSIVE append_hidden_params(_, _)
append_hidden_params(st, i) ==
  IF i >= Len(st.self.hidden_layer_size) THEN st
  ELSE append_hidden_params(
         append_params(st, At(st.self.hidden_layer_size, i - 1), At(st.self.hidden_layer_size, i)),
         i + 1)

RECURSIVE append_hidden_buffers(_, _)
append_hidden_buffers(s, i) ==
  IF i >= s.n_layers THEN s
  ELSE append_hidden_buffers(
         [s EXCEPT !.layers = Append(@, Empty(s.batch_size, At(s.hidden_layer_size, i))),
                   !.deltas = Append(@, Empty(s.batch_size, At(s.hidden_layer_size, i)))],
         i + 1)

\* fit, from "generate weights" to the main loop: [self, rng]
fit_allocate(s, n_features, r) ==
  LET st1 == append_params([self |-> s, rng |-> r], n_features, At(s.hidden_layer_size, 0))
      st2 == append_hidden_params(st1, 1)
      st3 == append_params(st2, At(s.hidden_layer_size, -1), s.output_size)
      s4  == [st3.self EXCEPT !.layers = Append(@, Empty(s.batch_size, s.input_size))]
      s5  == append_hidden_buffers(s4, 0)
      s6  == [s5 EXCEPT !.layers = Append(@, Empty(s.batch_size, s.output_size)),
                        !.deltas = Append(@, Empty(s.batch_size, s.output_size))]
  IN  [self |-> s6, rng |-> st3.rng]

\* fit with the sample counts compared after the allocation
fit_entry_check_late(s, X, y, r) ==
  LET st == fit_allocate(s, Cols(X), r)
  IN  IF Len(y.v) # Rows(X)
      THEN [raised |-> "ValueError", self |-> st.self, rng |-> st.rng]
      ELSE [raised |-> "", self |-> st.self, rng |-> st.rng]

\* fit, from its first line to the main loop: [raised, self, rng]
fit_entry(s, X, y, r) ==
  LET n_samples  == Rows(X)
      n_features == Cols(X)
  IN  IF Len(y.v) # n_samples
      THEN [raised |-> "ValueError", self |-> s, rng |-> r]
      ELSE LET st == fit_allocate(s, n_features, r)
           IN  [raised |-> "", self |-> st.self, rng |-> st.rng]

RECURSIVE forward_hidden(_, _)
forward_hidden(s, i) ==
  IF i >= 1 + s.n_layers THEN s
  ELSE LET W   == At(s.weights, i - 1)
           X   == At(s.layers, i - 1)
           b   == At(s.bias, i - 1)
           net == AddBias(Dot(X, W), b)
       IN  forward_hidden([s EXCEPT !.layers = SetAt(@, i, Call(s.activation_func, net))], i + 1)

\* forward with the output layer computed from the hidden activations the
\* buffers held before the call
forward_stale_hidden(s, X) ==
  LET s0   == [s EXCEPT !.layers = SetAt(@, 0, X)]
      s1   == forward_hidden(s0, 1)
      last == s.n_layers
      net  == AddBias(Dot(At(s.layers, last), At(s.weights, last)), At(s.bias, last))
  IN  [s1 EXCEPT !.layers = SetAt(@, -1, Call(s.output_layer, net))]

\* the engine after forward(X); forward returns its layers[-1]
forward(s, X) ==
  LET s0   == [s EXCEPT !.layers = SetAt(@, 0, X)]
      s1   == forward_hidden(s0, 1)
      last == s.n_layers
      W    == At(s1.weights, last)
      Xl   == At(s1.layers, last)
      b    == At(s1.bias, last)
      net  == AddBias(Dot(Xl, W), b)
  IN  [s1 EXCEPT !.layers = SetAt(@, -1, Call(s.output_layer, net))]

\* y is [dim, v]: dim 1 a vector of labels, dim 2 the (n_samples, 1) column
\* the columns a[range(n), y] -= 1 touches in row k (0-based): the index arrays
\* broadcast, so a column y pairs every row with every label
label_cols(y, k) == IF y.dim = 1 THEN {y.v[k + 1]} ELSE {y.v[j] : j \in 1..Len(y.v)}

\* self.deltas[-1] = self.layers[-1]; self.deltas[-1][range(n), y] -= 1
\* the assignment binds the same array, so the subtraction is seen through both
backward_output(s, X, y) ==
  LET a == At(s.layers, -1)
      d == Arr2([k \in 1..Rows(a) |-> [c \in 1..Cols(a) |->
                   IF k <= Rows(X) /\ (c - 1) \in label_cols(y, k - 1)
                   THEN a[k][c] - Q ELSE a[k][c]]],
                Rows(a), Cols(a))
  IN  [s EXCEPT !.deltas = SetAt(@, -1, d), !.layers = SetAt(@, -1, d)]

RECURSIVE backward_deltas(_, _)
backward_deltas(s, i) ==
  IF i <= 0 THEN [raised |-> "", self |-> s]
  ELSE LET a == At(s.layers, i)
           W == At(s.weights, i)
           d == At(s.deltas, i)
           g == Call(s.activation_dfunc, a)
       IN  IF ~DotOk(d, Transpose(W)) THEN [raised |-> "ValueError", self |-> s]
           ELSE IF ~MulOk(Dot(d, Transpose(W)), g) THEN [raised |-> "ValueError", self |-> s]
           ELSE backward_deltas([s EXCEPT !.deltas = SetAt(@, i - 1, Mul(Dot(d, Transpose(W)), g))],
                                i - 1)

RECURSIVE backward_weights(_, _)
backward_weights(s, i) ==
  IF i <= -1 THEN [raised |-> "", self |-> s]
  ELSE LET a     == At(s.layers, i)
           W     == At(s.weights, i)
           delta == At(s.deltas, i)
       IN  IF ~DotOk(Transpose(a), delta) THEN [raised |-> "ValueError", self |-> s]
           ELSE backward_weights(
                  [s EXCEPT !.weights = SetAt(@, i, SubScaled(W, s.lr, Dot(Transpose(a), delta)))],
                  i - 1)

\* [raised, self]: the engine when backward returns or raises
backward(s, X, y) ==
  LET s1 == IF s.loss = "cross_entropy" THEN backward_output(s, X, y) ELSE s
      r2 == backward_deltas(s1, s.n_layers)
  IN  IF r2.raised # "" THEN r2 ELSE backward_weights(r2.self, s.n_layers)

\* pred.argmax(axis=1): the first column holding the row's maximum, 0-based
argmax(row) ==
  (CHOOSE c \in 1..Len(row) :
      /\ \A d \in 1..Len(row) : row[d] <= row[c]
      /\ \A d \in 1..(c - 1) : row[d] < row[c]) - 1

\* [self, value]: the value np.sum(result_list * 1.0 / n_samples) as num / den;
\* pred.argmax(axis=1) == y compares row by row for a vector y and, by
\* broadcasting, every row with every label for a column y
score(s, X, y) ==
  LET n_samples == Rows(X)
      s1   == forward(s, X)
      pred == At(s1.layers, -1)
      am   == Arr1([k \in 1..Rows(pred) |-> argmax(pred[k])], Rows(pred))
      hits == IF y.dim = 1
              THEN Cardinality({k \in 1..Len(am) : am[k] = y.v[k]})
              ELSE Cardinality({p \in (1..Len(am)) \X (1..Len(y.v)) : am[p[1]] = y.v[p[2]]})
  IN  [self |-> s1, value |-> [num |-> hits, den |-> n_samples]]

\* the engine after compute_loss(X, y): it runs forward(X); the value it
\* returns is only printed by fit
compute_loss(s, X, y) == forward(s, X)

predict(s, X) == forward(s, X)

(***************************************************************************)
(* Inputs.                                                                 *)
(***************************************************************************)
\* the accepted constructions explored
Shapes ==
  { [activation |-> "sigmoid", hidden_layer_size |-> <<1>>,    batch_size |-> 2, verbose |-> 1],
    [activation |-> "tanh",    hidden_layer_size |-> <<2, 1>>, batch_size |-> 1, verbose |-> 2],
    [activation |-> "sigmoid", hidden_layer_size |-> <<1>>,    batch_size |-> 2, verbose |-> 0] }

InitArgs ==
  { [input_size |-> 1, output_size |-> 2, hidden_layer_size |-> sh.hidden_layer_size,
     batch_size |-> sh.batch_size, activation |-> sh.activation, output_layer |-> "softmax",
     loss |-> "cross_entropy", lr |-> Q \div 2, reg_lambda |-> 0, momentum |-> 0,
     verbose |-> sh.verbose] : sh \in Shapes }
  \cup
  { [input_size |-> 1, output_size |-> 2, hidden_layer_size |-> <<1>>,
     batch_size |-> 2, activation |-> p[1], output_layer |-> p[2],
     loss |-> "cross_entropy", lr |-> Q \div 2, reg_lambda |-> 0, momentum |-> 0,
     verbose |-> 1] : p \in {<<"relu", "softmax">>, <<"sigmoid", "linear">>} }

\* feature matrices of two and of three samples, one feature each
X2 == << <<Q>>, <<0>> >>
X3 == << <<Q>>, <<0>>, <<Q>> >>

Vec(v) == [dim |-> 1, v |-> v]
Column(v) == [dim |-> 2, v |-> v]

\* the (X, y, shuffle_data) arguments of fit explored: two samples in order,
\* three samples shuffled, and three samples with two labels
FitData ==
  { [X |-> X2, y |-> Vec(<<0, 1>>), shuffle_data |-> FALSE],
    [X |-> X3, y |-> Vec(<<0, 1, 1>>), shuffle_data |-> TRUE],
    [X |-> X3, y |-> Vec(<<0, 1>>), shuffle_data |-> FALSE] }

\* the max_epochs arguments of fit explored
EpochCounts == {1, MaxEpochs}

ScoreData ==
  { [X |-> X2, y |-> Vec(<<0, 1>>)],
    [X |-> X2, y |-> Column(<<0, 0>>)] }

PredictData == {X2, X3}

\* initial state of numpy.random's generator; every later call finds it in
\* the state the earlier calls left
NpSeeds == {0}

(***************************************************************************)
(* State.  self is the engine (no attributes before a construction has     *)
(* returned); pc and loc are fit's position and locals; lastOp is the last *)
(* call and how it ended; pre is the engine as the running or last fit     *)
(* found it; calls lists the forward and backward calls of the current     *)
(* epoch; ref keeps the first fit that returned on a fresh engine; seen    *)
(* keeps the weights, the bias and, per input, the first output of the     *)
(* predict calls made since the last construction or fit call.             *)
(***************************************************************************)
NoObject == [a \in {} |-> 0]
NoLoc == [X |-> <<>>, y |-> Vec(<<>>), max_epochs |-> 0, shuffle_data |-> FALSE,
          n_samples |-> 0, i |-> 0, batch |-> 0]
NoRef == [set |-> FALSE]
NoSeen == [set |-> FALSE, weights |-> <<>>, bias |-> <<>>, out |-> [X \in PredictData |-> <<>>]]

Constructed == "weights" \in DOMAIN self

Op(op, status, raised, arg, out) ==
  [op |-> op, status |-> status, raised |-> raised, arg |-> arg, out |-> out]

Init ==
  /\ self = NoObject
  /\ pyRandom = 0
  /\ npRandom \in NpSeeds
  /\ pc = "idle"
  /\ loc = NoLoc
  /\ lastOp = Op("none", "returned", "", <<>>, <<>>)
  /\ pre = NoObject
  /\ calls = <<>>
  /\ ref = NoRef
  /\ seen = NoSeen
  /\ nInit = 0
  /\ nFit = 0

\* network = MLP(...): the name is bound only when __init__ returns
Construct(a) ==
  /\ pc = "idle"
  /\ nInit < MaxInit
  /\ LET r == MLP_init(a)
     IN  /\ self' = IF r.raised = "" THEN r.obj ELSE self
         /\ lastOp' = Op("init", IF r.raised = "" THEN "returned" ELSE "raised", r.raised, a, r.obj)
  /\ nInit' = IF MLP_init(a).raised = "" THEN nInit + 1 ELSE nInit
  /\ seen' = NoSeen
  /\ UNCHANGED <<pyRandom, npRandom, pc, loc, pre, calls, ref, nFit>>

\* fit(X, y, max_epochs, shuffle_data) up to the main loop
FitCall(d, max_epochs, shuffle_data) ==
  /\ pc = "idle"
  /\ Constructed
  /\ nFit < MaxFit
  /\ nFit' = IF fit_entry(self, d.X, d.y, npRandom).raised = "" THEN nFit + 1 ELSE nFit
  /\ pre' = self
  /\ seen' = NoSeen
  /\ LET arg == [X |-> d.X, y |-> d.y, max_epochs |-> max_epochs,
                 shuffle_data |-> shuffle_data]
         st  == fit_entry(self, d.X, d.y, npRandom)
     IN  /\ self' = st.self
         /\ npRandom' = st.rng
         /\ IF st.raised # ""
            THEN /\ lastOp' = Op("fit", "raised", st.raised, arg, 0)
                 /\ UNCHANGED <<pyRandom, pc, loc, calls>>
            ELSE /\ pyRandom' = seed(1)
                 /\ pc' = "epoch"
                 /\ loc' = [X |-> d.X, y |-> d.y, max_epochs |-> max_epochs,
                            shuffle_data |-> shuffle_data, n_samples |-> Rows(d.X),
                            i |-> 0, batch |-> 0]
                 /\ calls' = <<>>
                 /\ lastOp' = Op("fit", "running", "", arg, 0)
  /\ UNCHANGED <<ref, nInit>>

\* range(0, n_samples - batch_size + 1, batch_size): full batches only
batch_starts_full_only(n_samples, batch_size) ==
  Arr1([k \in 1..(n_samples \div batch_size) |-> (k - 1) * batch_size],
       n_samples \div batch_size)

\* range(0, n_samples, batch_size)
batch_starts(n_samples, batch_size) ==
  Arr1([k \in 1..((n_samples + batch_size - 1) \div batch_size) |-> (k - 1) * batch_size],
       (n_samples + batch_size - 1) \div batch_size)

\* for i in range(max_epochs): shuffle, then the first batch
EpochStart ==
  /\ pc = "epoch"
  /\ loc.i < loc.max_epochs
  /\ LET index_set == Arr1([k \in 1..Rows(loc.X) |-> k - 1], Rows(loc.X))
         sh == np_random_shuffle(index_set, npRandom)
         bs == batch_starts(loc.n_samples, self.batch_size)
     IN  /\ IF loc.shuffle_data
            THEN /\ loc' = [loc EXCEPT !.X = Take(loc.X, sh.val),
                                       !.y = [loc.y EXCEPT !.v = Take(loc.y.v, sh.val)],
                                       !.batch = IF bs = <<>> THEN 0 ELSE bs[1]]
                 /\ npRandom' = sh.rng
            ELSE /\ loc' = [loc EXCEPT !.batch = IF bs = <<>> THEN 0 ELSE bs[1]]
                 /\ npRandom' = npRandom
         /\ pc' = IF bs = <<>> THEN "log" ELSE "forward"
  /\ calls' = <<>>
  /\ UNCHANGED <<self, pyRandom, lastOp, pre, ref, seen, nInit, nFit>>

\* self.forward(X[batch: batch + self.batch_size, :])
BatchForward ==
  /\ pc = "forward"
  /\ self' = forward(self, Slice(loc.X, loc.batch, loc.batch + self.batch_size))
  /\ calls' = Append(calls, <<"forward", loc.batch, Len(Slice(loc.X, loc.batch, loc.batch + self.batch_size))>>)
  /\ pc' = "backward"
  /\ UNCHANGED <<pyRandom, npRandom, loc, lastOp, pre, ref, seen, nInit, nFit>>

\* self.backward(X[batch:batch + self.batch_size, :], y[batch:batch + self.batch_size])
BatchBackward ==
  /\ pc = "backward"
  /\ LET Xb == Slice(loc.X, loc.batch, loc.batch + self.batch_size)
         yb == [loc.y EXCEPT !.v = Slice(loc.y.v, loc.batch, loc.batch + self.batch_size)]
         r  == backward(self, Xb, yb)
         bs == batch_starts(loc.n_samples, self.batch_size)
         k  == CHOOSE k \in 1..Len(bs) : bs[k] = loc.batch
     IN  /\ self' = r.self
         /\ calls' = Append(calls, <<"backward", loc.batch, Len(Xb)>>)
         /\ IF r.raised # ""
            THEN /\ pc' = "idle"
                 /\ lastOp' = [lastOp EXCEPT !.status = "raised", !.raised = r.raised]
                 /\ loc' = NoLoc
            ELSE /\ pc' = IF k < Len(bs) THEN "forward" ELSE "log"
                 /\ lastOp' = lastOp
                 /\ loc' = IF k < Len(bs) THEN [loc EXCEPT !.batch = bs[k + 1]] ELSE loc
  /\ UNCHANGED <<pyRandom, npRandom, pre, ref, seen, nInit, nFit>>

\* if i % self.verbose == 0: compute_loss, score, print
EpochLog ==
  /\ pc = "log"
  /\ IF self.verbose = 0
     THEN /\ pc' = "idle"
          /\ lastOp' = [lastOp EXCEPT !.status = "raised", !.raised = "ZeroDivisionError"]
          /\ loc' = NoLoc
          /\ UNCHANGED <<self, calls>>
     ELSE /\ IF loc.i % self.verbose = 0
             THEN /\ self' = score(compute_loss(self, loc.X, loc.y), loc.X, loc.y).self
                  /\ calls' = calls \o << <<"forward", 0, loc.n_samples>>,
                                         <<"forward", 0, loc.n_samples>> >>
             ELSE UNCHANGED <<self, calls>>
          /\ loc' = [loc EXCEPT !.i = loc.i + 1]
          /\ pc' = "epoch"
          /\ lastOp' = lastOp
  /\ UNCHANGED <<pyRandom, npRandom, pre, ref, seen, nInit, nFit>>

\* return self
FitReturn ==
  /\ pc = "epoch"
  /\ loc.i >= loc.max_epochs
  /\ pc' = "idle"
  /\ lastOp' = [lastOp EXCEPT !.status = "returned", !.out = loc.i]
  /\ loc' = NoLoc
  /\ ref' = IF ~ref.set /\ pre.weights = <<>>
            THEN [set |-> TRUE, engine |-> pre, arg |-> lastOp.arg,
                  weights |-> self.weights, bias |-> self.bias]
            ELSE ref
  /\ UNCHANGED <<self, pyRandom, npRandom, pre, calls, seen, nInit, nFit>>

\* predict(X); on an engine no fit has allocated, self.layers[0] = X raises
Predict(X) ==
  /\ pc = "idle"
  /\ Constructed
  /\ IF self.layers = <<>>
     THEN /\ lastOp' = Op("predict", "raised", "IndexError", X, <<>>)
          /\ UNCHANGED <<self, seen>>
     ELSE LET s1  == predict(self, X)
              out == At(s1.layers, -1)
          IN  /\ self' = s1
              /\ lastOp' = Op("predict", "returned", "", X, out)
              /\ seen' = IF ~seen.set
                         THEN [set |-> TRUE, weights |-> self.weights, bias |-> self.bias,
                               out |-> [NoSeen.out EXCEPT ![X] = out]]
                         ELSE IF seen.out[X] = <<>> THEN [seen EXCEPT !.out[X] = out]
                         ELSE seen
  /\ UNCHANGED <<pyRandom, npRandom, pc, loc, pre, calls, ref, nInit, nFit>>

\* score(X, y)
Score(d) ==
  /\ pc = "idle"
  /\ Constructed
  /\ IF self.layers = <<>>
     THEN /\ lastOp' = Op("score", "raised", "IndexError", d, <<>>)
          /\ self' = self
     ELSE /\ self' = score(self, d.X, d.y).self
          /\ lastOp' = Op("score", "returned", "", d, score(self, d.X, d.y).value)
  /\ UNCHANGED <<pyRandom, npRandom, pc, loc, pre, calls, ref, seen, nInit, nFit>>

Next ==
  \/ \E a \in InitArgs : Construct(a)
  \/ \E d \in FitData, max_epochs \in EpochCounts :
        FitCall(d, max_epochs, d.shuffle_data)
  \/ EpochStart
  \/ BatchForward
  \/ BatchBackward
  \/ EpochLog
  \/ FitReturn
  \/ \E X \in PredictData : Predict(X)
  \/ \E d \in ScoreData : Score(d)

Spec == Init /\ [][Next]_vars

(***************************************************************************)
(* Properties.                                                             *)
(***************************************************************************)
StoreNames == {"weights", "bias", "layers", "deltas"}

FitIdle == pc = "idle" /\ lastOp.op = "fit"
FitReturned == FitIdle /\ lastOp.status = "returned"
FitRaised == FitIdle /\ lastOp.status = "raised"

\* C1: after fit calls that returned, the engine holds len(hidden_layer_size) + 1
\* weight matrices and as many bias vectors
C1_StoreSize ==
  FitReturned =>
    /\ Len(self.weights) = Len(self.hidden_layer_size) + 1
    /\ Len(self.bias) = Len(self.hidden_layer_size) + 1

\* C2: a fit that returns on a fresh engine, with the configuration and the
\* arguments of an earlier fit on a fresh engine, ends with the same weights and
\* biases, whatever numpy.random's state was at the call
C2_Deterministic ==
  (FitReturned /\ ref.set /\ pre = ref.engine /\ lastOp.arg = ref.arg) =>
    (self.weights = ref.weights /\ self.bias = ref.bias)

\* C3: fit with X and y of different sample counts raises ValueError and leaves
\* weights, bias, layers and deltas as the call found them
C3_ShapeMismatch ==
  (FitIdle /\ Len(lastOp.arg.y.v) # Rows(lastOp.arg.X)) =>
    /\ lastOp.status = "raised" /\ lastOp.raised = "ValueError"
    /\ \A f \in StoreNames : self[f] = pre[f]

C3_Witness ==
  /\ FitRaised /\ Len(lastOp.arg.y.v) # Rows(lastOp.arg.X)
  /\ pre.weights # <<>>

\* C4: a construction with an unsupported activation or output layer raises
\* ValueError before any of the four stores is set on the object, and binds no
\* engine
C4_InitRejects ==
  [][(lastOp'.op = "init" /\ (\/ lastOp'.arg.activation \notin {"sigmoid", "tanh"}
                              \/ lastOp'.arg.output_layer # "softmax")) =>
       /\ lastOp'.status = "raised" /\ lastOp'.raised = "ValueError"
       /\ StoreNames \cap DOMAIN lastOp'.out = {}
       /\ self' = self]_vars

C4_Witness ==
  /\ lastOp.op = "init" /\ lastOp.status = "raised"
  /\ lastOp.arg.activation = "relu"
  /\ Constructed

\* C5: with no construction and no fit call in between, every predict on an
\* input returns what the first predict on that input returned, and the weights
\* and biases are those the first predict found
C5_PredictIdempotent ==
  (pc = "idle" /\ lastOp.op = "predict" /\ lastOp.status = "returned") =>
    /\ seen.set
    /\ seen.out[lastOp.arg] = lastOp.out
    /\ self.weights = seen.weights
    /\ self.bias = seen.bias

C5_Witness ==
  /\ pc = "idle" /\ lastOp.op = "predict" /\ lastOp.status = "returned"
  /\ \A X \in PredictData : seen.out[X] # <<>>
  /\ At(self.layers, 0) = lastOp.arg
  /\ seen.out[lastOp.arg] = lastOp.out
  /\ lastOp.arg = X2

\* C6: a fit call that raised left the engine as it found it, and a fit call
\* that returned ran max_epochs epochs
C6_AllOrNothing ==
  FitIdle =>
    \/ lastOp.status = "raised" /\ self = pre
    \/ lastOp.status = "returned" /\ lastOp.out = lastOp.arg.max_epochs

\* C7: on an engine whose one fit call returned, score returns a value between
\* 0 and 1, for a vector y and for a column y
C7_ScoreInUnitInterval ==
  (/\ pc = "idle" /\ lastOp.op = "score" /\ lastOp.status = "returned"
   /\ self.verbose # 0 /\ Len(self.weights) = self.n_layers + 1) =>
    (0 <= lastOp.out.num /\ lastOp.out.num <= lastOp.out.den)

\* C8: backward leaves the output activation buffer as forward wrote it
C8_BackwardKeepsOutput ==
  [][pc = "backward" => At(self'.layers, -1) = At(self.layers, -1)]_vars

\* the calls the batch loop of one epoch makes on n samples with batch size b:
\* for each of the ceil(n / b) chunks, forward and then backward on that chunk
RECURSIVE EpochCalls(_, _, _)
EpochCalls(n, b, k) ==
  IF k * b >= n THEN <<>>
  ELSE LET rows == IF n - k * b < b THEN n - k * b ELSE b
       IN  << <<"forward", k * b, rows>>, <<"backward", k * b, rows>> >> \o EpochCalls(n, b, k + 1)

IsPrefix(p, q) == Len(p) <= Len(q) /\ \A k \in 1..Len(p) : p[k] = q[k]

\* C9: a fit that returns ran max_epochs epochs; the batch loop of an epoch
\* calls forward and then backward on each of the ceil(n / b) contiguous chunks
\* in order, the chunks cover every sample once, and at each backward the input
\* buffer holds the chunk backward is given
C9_EpochSchedule ==
  /\ FitReturned => lastOp.out = lastOp.arg.max_epochs
  /\ pc \in {"forward", "backward"} =>
       /\ IsPrefix(calls, EpochCalls(loc.n_samples, self.batch_size, 0))
       /\ Len(calls) < Len(EpochCalls(loc.n_samples, self.batch_size, 0))
       /\ Len(calls) % 2 = (IF pc = "backward" THEN 1 ELSE 0)
  /\ pc = "backward" =>
       At(self.layers, 0) = Slice(loc.X, loc.batch, loc.batch + self.batch_size)
  /\ pc = "log" =>
       /\ calls = EpochCalls(loc.n_samples, self.batch_size, 0)
       /\ Len(calls) = 2 * ((loc.n_samples + self.batch_size - 1) \div self.batch_size)
       /\ \A j \in 0..(loc.n_samples - 1) :
            Cardinality({k \in 1..Len(calls) :
               calls[k][1] = "forward" /\ calls[k][2] <= j /\ j < calls[k][2] + calls[k][3]}) = 1

C9_Witness ==
  /\ pc = "log" /\ loc.i = 1
  /\ loc.n_samples = 3 /\ self.batch_size = 2 /\ loc.shuffle_data
  /\ loc.X # lastOp.arg.X

\* C10: at every backward, deltas[-1] is deltas[n_layers] and layers[-1] is
\* layers[n_layers + 1]
C10_CurrentDelta ==
  pc = "backward" =>
    /\ Idx(self.deltas, -1) = Idx(self.deltas, self.n_layers)
    /\ Idx(self.layers, -1) = Idx(self.layers, self.n_layers + 1)

====
